---------------------------- MODULE Spec2Model ----------------------------
(***************************************************************************)
(* PDF Story Reader (src/app.js): the chunker splitIntoSentences, the      *)
(* voice assigner getVoiceForSpeaker and the playback controller of class  *)
(* PDFStoryReader, with the speech-synthesis backend and the timers of the *)
(* event loop as the environment.                                          *)
(***************************************************************************)
EXTENDS Integers, Sequences, FiniteSets, TLC

(***************************************************************************)
(* Bounds of the model.                                                    *)
(***************************************************************************)
\* The longest document: a load installs the first 0, 1 or MaxChunks chunks
\* of the book.
MaxChunks == 8
\* Pending setTimeout callbacks.
MaxTimers == 2
\* Utterances in the backend's queue.
MaxQueue == 2
\* Cancelled utterances whose terminal event is still to be dispatched.
MaxStale == 1
\* seekToPercent is called with percent = k / SeekDen, k in 0..SeekDen.
SeekDen == 2
\* Sentence units of a paragraph given to splitIntoSentences.
MaxParts == 3
MaxTokens == 3
MaxPages == 3
MaxVoices == 3

(***************************************************************************)
(* Program constants.                                                      *)
(***************************************************************************)
SKIP_PARAGRAPHS == 5
IOS_INIT_DELAY_MS == 100
RESUME_DELAY_MS == 100
PACING_DELAY_MS == 300
IOS_ERROR_DELAY_MS == 500
IOS_SPEAK_DELAY_MS == 50

Min(a, b) == IF a < b THEN a ELSE b
Max(a, b) == IF a > b THEN a ELSE b

\* null / undefined
NoVoice == "null"
NoSpeaker == "null"

\* new Map()
EmptyMap == [s \in {} |-> NoVoice]

(***************************************************************************)
(* The voice catalog of the backend (speechSynthesis.getVoices()): en is   *)
(* lang.startsWith('en'); male / female are the name hints of              *)
(* populateVoiceSelects.                                                   *)
(***************************************************************************)
Catalog ==
    << [name |-> "Alex",   en |-> TRUE,  male |-> FALSE, female |-> FALSE],
       [name |-> "Amelie", en |-> FALSE, male |-> FALSE, female |-> FALSE],
       [name |-> "Karen",  en |-> TRUE,  male |-> FALSE, female |-> TRUE] >>

VoiceNames == { Catalog[i].name : i \in 1..Len(Catalog) }

Speakers == {"Ana", "Ben"}

(***************************************************************************)
(* The chunk records extractText builds, as far as playback reads them:    *)
(* chunk i of the book (0-based) has page, isDialogue (detectDialogue) and *)
(* speaker (detectSpeaker, null when no pattern matches), and its text.    *)
(***************************************************************************)
\* A chunk's text, as far as speakCurrent reads it: its length, the indexes
\* at which ". " occurs and the indexes at which " " occurs (0-based, as
\* String.prototype.lastIndexOf counts them).
ChunkText(i) ==
    CASE i % 3 = 0 -> [len |-> 400,  dots |-> {150}, spaces |-> {151, 300}]
      [] i % 3 = 1 -> [len |-> 1000, dots |-> {500}, spaces |-> {501, 790}]
      [] OTHER     -> [len |-> 1600, dots |-> {200},
                       spaces |-> {201, 790, 1490}]

BookChunk(i) ==
    [text       |-> ChunkText(i),
     page       |-> (i \div 3) + 1,
     isDialogue |-> (i % 4) # 0,
     speaker    |-> CASE i % 4 = 1 -> "Ana"
                      [] i % 4 = 3 -> "Ben"
                      [] OTHER     -> NoSpeaker]

Book(n) == [k \in 1..n |-> BookChunk(k - 1)]

DocLengths == {0, 1, MaxChunks}

VARIABLES
    isIOSSafari,            \* platform constant, fixed at start
    paragraphs,             \* this.paragraphs: the chunk sequence
    currentParagraphIndex,  \* this.currentParagraphIndex
    isPlaying,              \* this.isPlaying
    voices,                 \* this.voices
    narratorVoice,          \* this.narratorVoice
    dialogueVoice,          \* this.dialogueVoice
    smartVoices,            \* this.smartVoices
    speakerVoices,          \* this.speakerVoices: Map speaker -> voice
    iosSpeechInitialized,   \* this.iosSpeechInitialized
    readerShown,            \* reader section visible, upload section hidden
    loadPc,                 \* progress of loadPDF: "none", "opening", "extracting"
    display,                \* chunk index last rendered by updateDisplay
    timers,                 \* pending setTimeout callbacks, in creation order
    queue,                  \* the backend's utterance queue, head being spoken
    stale,                  \* cancelled utterances with an event still to come
    firstVoice,             \* history: per speaker, the voice of its first
                            \* smart-mode resolution since the last reset
    lastOp,                 \* history: the last step taken
    lastFrom,               \* history: the index before the last step
    lastArg,                \* history: k of the last seekToPercent(k / SeekDen)
    parts,                  \* splitIntoSentences: the sentence units of text
    partIdx,                \* splitIntoSentences: units consumed by forEach
    current,                \* splitIntoSentences: the buffer
    chunks,                 \* splitIntoSentences: the chunks pushed so far
    chunkDone,              \* splitIntoSentences has returned
    sentence,               \* detectSpeaker: the text it is called with
    detected,               \* detectSpeaker: what it returned
    textContent,            \* extractText: this.textContent, the page texts
    pageIdx,                \* extractText: pages consumed by the last forEach
    retryCount,             \* initVoices: retryCount of the polling interval
    retryInterval,          \* initVoices: the polling interval is set
    warned                  \* initVoices: the give-up warning was logged

vars == << isIOSSafari, paragraphs, currentParagraphIndex, isPlaying, voices,
           narratorVoice, dialogueVoice, smartVoices, speakerVoices,
           iosSpeechInitialized, readerShown, loadPc, display, timers, queue,
           stale, firstVoice, lastOp, lastFrom, lastArg, parts, partIdx,
           current,
           chunks, chunkDone, sentence, detected, textContent, pageIdx,
           retryCount, retryInterval, warned >>

voiceVars == << voices, narratorVoice, dialogueVoice, smartVoices >>
loadVars == << paragraphs, readerShown, loadPc >>
histVars == << firstVoice >>
chunkVars == << parts, partIdx, current, chunks, chunkDone >>
\* What no playback step changes.
detectVars == << sentence, detected >>
extractVars == << textContent, pageIdx >>
startupVars == << retryCount, retryInterval, warned >>
fixedVars == << isIOSSafari, chunkVars, detectVars, extractVars, startupVars >>

\* History: the operation of the step taken and, for a skip, the position
\* it started from.
Record(op, arg) ==
    /\ lastOp' = op
    /\ lastFrom' = IF op \in {"rewind", "forward", "seek"}
                   THEN currentParagraphIndex ELSE 0
    /\ lastArg' = arg

SetLast(op) == Record(op, 0)

NumChunks == Len(paragraphs)

(***************************************************************************)
(* populateVoiceSelects: the default narrator and dialogue voices.         *)
(***************************************************************************)
EnglishVoices(vs) == SelectSeq(vs, LAMBDA v : v.en)

\* Array.prototype.find over a voice list: the name of the first voice whose
\* name is in ok, or null.
FirstIn(s, ok) ==
    IF \E i \in 1..Len(s) : s[i].name \in ok
    THEN s[CHOOSE i \in 1..Len(s) :
               /\ s[i].name \in ok
               /\ \A j \in 1..(i - 1) : s[j].name \notin ok].name
    ELSE NoVoice

Names(s) == { s[i].name : i \in 1..Len(s) }
MaleHinted(s) == { s[i].name : i \in { j \in 1..Len(s) : s[j].male } }
FemaleHinted(s) == { s[i].name : i \in { j \in 1..Len(s) : s[j].female } }

DefaultNarrator(vs) ==
    LET en   == EnglishVoices(vs)
        male == FirstIn(en, MaleHinted(en))
    IN  IF male # NoVoice THEN male ELSE en[1].name

DefaultDialogue(vs) ==
    LET en     == EnglishVoices(vs)
        first  == IF Len(en) > 1 THEN en[2].name ELSE en[1].name
        female == FirstIn(en, FemaleHinted(en))
    IN  IF female # NoVoice /\ female # DefaultNarrator(vs) THEN female ELSE first

(***************************************************************************)
(* getVoiceForSpeaker(speaker): the voice returned and the mapping after.  *)
(***************************************************************************)
\* An assignment that does not keep the narrator's voice out.
NewVoiceIgnoringNarrator(sv, narrator, vs) ==
    LET en     == EnglishVoices(vs)
        used   == { sv[s] : s \in DOMAIN sv }
        unused == FirstIn(en, Names(en) \ used)
    IN  IF unused # NoVoice THEN unused
        ELSE IF Len(en) = 0 THEN NoVoice
        ELSE en[(Cardinality(DOMAIN sv) % Len(en)) + 1].name

NewVoiceFor(sv, narrator, vs) ==
    LET en     == EnglishVoices(vs)
        used   == { sv[s] : s \in DOMAIN sv }
        unused == FirstIn(en, (Names(en) \ used) \ {narrator})
    IN  IF unused # NoVoice THEN unused
        ELSE IF Len(en) = 0 THEN NoVoice
        ELSE en[(Cardinality(DOMAIN sv) % Len(en)) + 1].name

GetVoiceForgetful(speaker, smart, sv, narrator, vs) ==
    IF speaker = NoSpeaker \/ ~smart
    THEN [voice |-> narrator, map |-> sv]
    ELSE LET v == NewVoiceFor(sv, narrator, vs)
         IN  [voice |-> v, map |-> (speaker :> v) @@ sv]

GetVoiceForSpeaker(speaker, smart, sv, narrator, vs) ==
    IF speaker = NoSpeaker \/ ~smart
    THEN [voice |-> narrator, map |-> sv]
    ELSE IF speaker \in DOMAIN sv
    THEN [voice |-> sv[speaker], map |-> sv]
    ELSE LET v == NewVoiceFor(sv, narrator, vs)
         IN  [voice |-> v, map |-> sv @@ (speaker :> v)]

\* A selection that reads unattributed dialogue in the narrator's voice.
ResolveVoiceNarratorOnly(p, smart, sv, narrator, dialogue, vs) ==
    IF smart /\ p.isDialogue /\ p.speaker # NoSpeaker
    THEN GetVoiceForSpeaker(p.speaker, smart, sv, narrator, vs)
    ELSE [voice |-> narrator, map |-> sv]

\* A selection that assigns speakers their voices whether smart voices is
\* on or off.
ResolveVoiceAlwaysMapping(p, smart, sv, narrator, dialogue, vs) ==
    IF p.isDialogue /\ p.speaker # NoSpeaker
    THEN GetVoiceForSpeaker(p.speaker, TRUE, sv, narrator, vs)
    ELSE [voice |-> IF smart /\ p.isDialogue THEN dialogue ELSE narrator,
          map |-> sv]

\* speakCurrent's smart voice selection for a chunk.
ResolveVoice(p, smart, sv, narrator, dialogue, vs) ==
    IF smart
    THEN IF p.isDialogue
         THEN IF p.speaker # NoSpeaker
              THEN GetVoiceForSpeaker(p.speaker, smart, sv, narrator, vs)
              ELSE [voice |-> dialogue, map |-> sv]
         ELSE [voice |-> narrator, map |-> sv]
    ELSE [voice |-> narrator, map |-> sv]

(***************************************************************************)
(* The backend.  speak appends to the queue; cancel empties it, and every  *)
(* utterance with handlers that it removes is owed a terminal event, which *)
(* the browser dispatches later.                                           *)
(***************************************************************************)
Handled(q) == Cardinality({ i \in 1..Len(q) : q[i].handlers })

StaleAfterCancel(q, st) == Min(MaxStale, st + Handled(q))

\* The utterance at place k of the queue is the current request: the one
\* submitted last and not cancelled.
IsCurrent(k) == k = Len(queue) /\ queue[k].handlers

(***************************************************************************)
(* updateDisplay: returns early on an empty sequence, throws a TypeError   *)
(* reading paragraphs[index].text when index is out of range.              *)
(***************************************************************************)
DisplayThrows(ps, idx) == Len(ps) > 0 /\ (idx < 0 \/ idx >= Len(ps))

DisplayAfter(ps, idx) == IF Len(ps) = 0 THEN display ELSE idx

(***************************************************************************)
(* Timers.  A timer set later fires before one set earlier only if its     *)
(* delay is strictly shorter.                                              *)
(***************************************************************************)
SpeakDelay == IF isIOSSafari THEN IOS_SPEAK_DELAY_MS ELSE 0

Delay(t) ==
    CASE t.kind = "submit"  -> SpeakDelay
      [] t.kind = "play"    -> RESUME_DELAY_MS
      [] t.kind = "iosInit" -> IOS_INIT_DELAY_MS
      [] t.kind = "speak"   -> t.delay

CanFire(k) == \A j \in 1..(k - 1) : Delay(timers[j]) > Delay(timers[k])

Remove(s, k) == [i \in 1..(Len(s) - 1) |-> IF i < k THEN s[i] ELSE s[i + 1]]

Timer(kind, par, delay) == [kind |-> kind, par |-> par, delay |-> delay]

\* The reader as its constructor leaves it, getVoices() having returned vs
\* to initVoices.
ConstructedWith(vs) ==
    /\ paragraphs = << >>
    /\ currentParagraphIndex = 0
    /\ isPlaying = FALSE
    /\ voices = vs
    /\ narratorVoice = IF Len(EnglishVoices(vs)) > 0
                       THEN DefaultNarrator(vs) ELSE NoVoice
    /\ dialogueVoice = IF Len(EnglishVoices(vs)) > 0
                       THEN DefaultDialogue(vs) ELSE NoVoice
    /\ smartVoices = TRUE
    /\ speakerVoices = EmptyMap
    /\ iosSpeechInitialized = FALSE
    /\ readerShown = FALSE
    /\ loadPc = "none"
    /\ display = -1
    /\ timers = << >>
    /\ queue = << >>
    /\ stale = 0
    /\ firstVoice = EmptyMap
    /\ lastOp = "init"
    /\ lastFrom = 0
    /\ lastArg = 0

\* The voices are there when the reader is constructed.
Constructed == ConstructedWith(Catalog)

\* No call of splitIntoSentences is in progress.
ChunkerIdle ==
    /\ parts = << >>
    /\ partIdx = 0
    /\ current = << >>
    /\ chunks = << >>
    /\ chunkDone = TRUE

\* No call of detectSpeaker is in progress.
DetectorIdle ==
    /\ sentence = << >>
    /\ detected = NoSpeaker

\* No page loop of extractText is in progress.
ExtractorIdle ==
    /\ textContent = << >>
    /\ pageIdx = 0

\* initVoices is not polling for voices.
PollingIdle ==
    /\ retryCount = 0
    /\ retryInterval = FALSE
    /\ warned = FALSE

Init ==
    /\ isIOSSafari \in BOOLEAN
    /\ Constructed
    /\ ChunkerIdle
    /\ DetectorIdle
    /\ ExtractorIdle
    /\ PollingIdle

(***************************************************************************)
(* pause(): isPlaying = false; speechSynthesis.cancel().                   *)
(***************************************************************************)
PauseBody ==
    /\ isPlaying' = FALSE
    /\ queue' = << >>
    /\ stale' = StaleAfterCancel(queue, stale)

(***************************************************************************)
(* speakCurrent(), entered with isPlaying = playing and the pending timers *)
(* tms: stops at the end of the sequence; otherwise renders the chunk,     *)
(* cancels the backend's queue and schedules the delayed submit of the     *)
(* chunk object read at the current index.                                 *)
(***************************************************************************)
SpeakCurrent(playing, tms) ==
    IF ~playing \/ currentParagraphIndex >= NumChunks
    THEN /\ isPlaying' = FALSE
         /\ timers' = tms
         /\ UNCHANGED << queue, stale, display >>
    ELSE IF DisplayThrows(paragraphs, currentParagraphIndex)
    THEN /\ isPlaying' = playing
         /\ timers' = tms
         /\ UNCHANGED << queue, stale, display >>
    ELSE /\ isPlaying' = playing
         /\ display' = DisplayAfter(paragraphs, currentParagraphIndex)
         /\ queue' = << >>
         /\ stale' = StaleAfterCancel(queue, stale)
         /\ timers' = Append(tms, Timer("submit",
                                        IF currentParagraphIndex < 0 THEN -1
                                        ELSE currentParagraphIndex, 0))

\* The utterance play() speaks on iOS Safari to unlock speech: no handlers.
InitUtterance ==
    [idx |-> -1, voice |-> NoVoice, handlers |-> FALSE, chars |-> 1,
     pitch |-> 10]

(***************************************************************************)
(* play(), with the pending timers tms.                                    *)
(***************************************************************************)
PlayBody(tms) ==
    IF NumChunks = 0
    THEN /\ timers' = tms
         /\ UNCHANGED << isPlaying, queue, stale, display, iosSpeechInitialized >>
    ELSE IF isIOSSafari /\ ~iosSpeechInitialized
    THEN /\ queue' = << InitUtterance >>
         /\ stale' = StaleAfterCancel(queue, stale)
         /\ iosSpeechInitialized' = TRUE
         /\ timers' = Append(tms, Timer("iosInit", -1, 0))
         /\ UNCHANGED << isPlaying, display >>
    ELSE /\ SpeakCurrent(TRUE, tms)
         /\ UNCHANGED iosSpeechInitialized

Play ==
    /\ Len(timers) < MaxTimers
    /\ PlayBody(timers)
    /\ SetLast("play")
    /\ UNCHANGED << fixedVars, currentParagraphIndex, speakerVoices >>
    /\ UNCHANGED << voiceVars, loadVars, histVars >>

Pause ==
    /\ PauseBody
    /\ SetLast("pause")
    /\ UNCHANGED << fixedVars, currentParagraphIndex, speakerVoices, display,
                    iosSpeechInitialized, timers >>
    /\ UNCHANGED << voiceVars, loadVars, histVars >>

\* togglePlayPause(): the play/pause button of the reader section.
TogglePlayPause ==
    /\ readerShown
    /\ IF isPlaying
       THEN /\ PauseBody
            /\ UNCHANGED << display, iosSpeechInitialized, timers >>
       ELSE /\ Len(timers) < MaxTimers
            /\ PlayBody(timers)
    /\ SetLast("toggle")
    /\ UNCHANGED << fixedVars, currentParagraphIndex, speakerVoices >>
    /\ UNCHANGED << voiceVars, loadVars, histVars >>

(***************************************************************************)
(* rewind(), forward(), seekToPercent(): pause, move the index to target,  *)
(* updateDisplay, and when it was playing schedule play() after 100 ms.    *)
(***************************************************************************)
RewindUnclamped(p) == p - SKIP_PARAGRAPHS

RewindTarget(p) == Max(0, p - SKIP_PARAGRAPHS)

ForwardPastEnd(p, n) == Min(n, p + SKIP_PARAGRAPHS)

ForwardTarget(p, n) == Min(n - 1, p + SKIP_PARAGRAPHS)

\* Math.floor(percent * length) for percent = k / SeekDen, then the clamp.
SeekUnclamped(k, n) == (k * n) \div SeekDen

SeekTarget(k, n) == Max(0, Min(n - 1, (k * n) \div SeekDen))

MoveTo(target, op, arg) ==
    /\ isPlaying => Len(timers) < MaxTimers
    /\ PauseBody
    /\ currentParagraphIndex' = target
    /\ IF DisplayThrows(paragraphs, target)
       THEN UNCHANGED << display, timers >>
       ELSE /\ display' = DisplayAfter(paragraphs, target)
            /\ timers' = IF isPlaying
                         THEN Append(timers, Timer("play", -1, 0))
                         ELSE timers
    /\ Record(op, arg)
    /\ UNCHANGED << fixedVars, speakerVoices, iosSpeechInitialized >>
    /\ UNCHANGED << voiceVars, loadVars, histVars >>

Rewind == MoveTo(RewindTarget(currentParagraphIndex), "rewind", 0)

Forward ==
    MoveTo(ForwardTarget(currentParagraphIndex, NumChunks), "forward", 0)

SeekToPercent ==
    /\ readerShown
    /\ \E k \in 0..SeekDen :
          MoveTo(SeekTarget(k, NumChunks), "seek", k)

(***************************************************************************)
(* resetReader(): the change-book button of the reader section.            *)
(***************************************************************************)
ResetReader ==
    /\ readerShown
    /\ PauseBody
    /\ iosSpeechInitialized' = IF isIOSSafari THEN FALSE ELSE iosSpeechInitialized
    /\ paragraphs' = << >>
    /\ currentParagraphIndex' = 0
    /\ speakerVoices' = EmptyMap
    /\ readerShown' = FALSE
    /\ firstVoice' = EmptyMap
    /\ SetLast("reset")
    /\ UNCHANGED << fixedVars, loadPc, display, timers >>
    /\ UNCHANGED voiceVars

(***************************************************************************)
(* loadPDF(file) and extractText(), step by step at their awaits.          *)
(***************************************************************************)
\* processFile: a file is chosen in the upload section.
LoadPDF ==
    /\ ~readerShown
    /\ loadPc = "none"
    /\ loadPc' = "opening"
    /\ SetLast("loadStart")
    /\ UNCHANGED << fixedVars, paragraphs, currentParagraphIndex, isPlaying,
                    speakerVoices, iosSpeechInitialized, readerShown, display,
                    timers, queue, stale >>
    /\ UNCHANGED << voiceVars, histVars >>

\* waitForPdfJs or getDocument rejects: caught, nothing installed.
LoadFails ==
    /\ loadPc = "opening"
    /\ loadPc' = "none"
    /\ SetLast("loadFail")
    /\ UNCHANGED << fixedVars, paragraphs, currentParagraphIndex, isPlaying,
                    speakerVoices, iosSpeechInitialized, readerShown, display,
                    timers, queue, stale >>
    /\ UNCHANGED << voiceVars, histVars >>

\* extractText begins: this.paragraphs = [].
ExtractBegin ==
    /\ loadPc = "opening"
    /\ loadPc' = "extracting"
    /\ paragraphs' = << >>
    /\ SetLast("extractBegin")
    /\ UNCHANGED << fixedVars, currentParagraphIndex, isPlaying,
                    speakerVoices, iosSpeechInitialized, readerShown, display,
                    timers, queue, stale >>
    /\ UNCHANGED << voiceVars, histVars >>

\* getPage or getTextContent rejects: caught in loadPDF.
ExtractFails ==
    /\ loadPc = "extracting"
    /\ loadPc' = "none"
    /\ SetLast("extractFail")
    /\ UNCHANGED << fixedVars, paragraphs, currentParagraphIndex, isPlaying,
                    speakerVoices, iosSpeechInitialized, readerShown, display,
                    timers, queue, stale >>
    /\ UNCHANGED << voiceVars, histVars >>

\* extractText installs the chunk sequence; loadPDF shows the reader section
\* and calls updateDisplay.
ExtractDone ==
    /\ loadPc = "extracting"
    /\ \E n \in DocLengths :
          /\ paragraphs' = Book(n)
          /\ display' = IF DisplayThrows(Book(n), currentParagraphIndex)
                        THEN display
                        ELSE IF n = 0 THEN display ELSE currentParagraphIndex
    /\ readerShown' = TRUE
    /\ loadPc' = "none"
    /\ SetLast("loaded")
    /\ UNCHANGED << fixedVars, currentParagraphIndex, isPlaying,
                    speakerVoices, iosSpeechInitialized, timers, queue, stale >>
    /\ UNCHANGED << voiceVars, histVars >>

(***************************************************************************)
(* Settings.                                                               *)
(***************************************************************************)
\* onvoiceschanged: loadVoices and populateVoiceSelects.
LoadVoices ==
    /\ voices' = Catalog
    /\ IF Len(EnglishVoices(Catalog)) > 0
       THEN /\ narratorVoice' = DefaultNarrator(Catalog)
            /\ dialogueVoice' = DefaultDialogue(Catalog)
       ELSE UNCHANGED << narratorVoice, dialogueVoice >>
    /\ SetLast("voices")
    /\ UNCHANGED << fixedVars, currentParagraphIndex, isPlaying,
                    speakerVoices, iosSpeechInitialized, display, timers, queue,
                    stale, smartVoices >>
    /\ UNCHANGED << loadVars, histVars >>

SetNarratorVoice ==
    /\ \E v \in Names(voices) : narratorVoice' = v
    /\ SetLast("setNarrator")
    /\ UNCHANGED << fixedVars, currentParagraphIndex, isPlaying,
                    speakerVoices, iosSpeechInitialized, display, timers, queue,
                    stale, voices, dialogueVoice, smartVoices >>
    /\ UNCHANGED << loadVars, histVars >>

SetDialogueVoice ==
    /\ \E v \in Names(voices) : dialogueVoice' = v
    /\ SetLast("setDialogue")
    /\ UNCHANGED << fixedVars, currentParagraphIndex, isPlaying,
                    speakerVoices, iosSpeechInitialized, display, timers, queue,
                    stale, voices, narratorVoice, smartVoices >>
    /\ UNCHANGED << loadVars, histVars >>

SetSmartVoices ==
    /\ \E b \in BOOLEAN : smartVoices' = b
    /\ SetLast("setSmart")
    /\ UNCHANGED << fixedVars, currentParagraphIndex, isPlaying,
                    speakerVoices, iosSpeechInitialized, display, timers, queue,
                    stale, voices, narratorVoice, dialogueVoice >>
    /\ UNCHANGED << loadVars, histVars >>

(***************************************************************************)
(* Timer callbacks.                                                        *)
(***************************************************************************)
\* setTimeout(() => this.play(), 100) of rewind / forward / seekToPercent.
ResumeTimer ==
    \E k \in 1..Len(timers) :
       /\ timers[k].kind = "play"
       /\ CanFire(k)
       /\ PlayBody(Remove(timers, k))
       /\ SetLast("resumeTimer")
       /\ UNCHANGED << fixedVars, currentParagraphIndex, speakerVoices >>
       /\ UNCHANGED << voiceVars, loadVars, histVars >>

\* The delayed half of play() on iOS Safari.
IosInitTimer ==
    \E k \in 1..Len(timers) :
       /\ timers[k].kind = "iosInit"
       /\ CanFire(k)
       /\ SpeakCurrent(TRUE, Remove(timers, k))
       /\ SetLast("iosInitTimer")
       /\ UNCHANGED << fixedVars, currentParagraphIndex, speakerVoices,
                       iosSpeechInitialized >>
       /\ UNCHANGED << voiceVars, loadVars, histVars >>

\* setTimeout(() => this.speakCurrent(), 300) of onend / onerror.
PacingTimer ==
    \E k \in 1..Len(timers) :
       /\ timers[k].kind = "speak"
       /\ CanFire(k)
       /\ SpeakCurrent(isPlaying, Remove(timers, k))
       /\ SetLast("pacingTimer")
       /\ UNCHANGED << fixedVars, currentParagraphIndex, speakerVoices,
                       iosSpeechInitialized >>
       /\ UNCHANGED << voiceVars, loadVars, histVars >>

Remember(first, speaker, voice) ==
    IF speaker \in DOMAIN first THEN first ELSE first @@ (speaker :> voice)

\* The fallback length limit of one utterance.
maxChars(ios) == IF ios THEN 800 ELSE 1500

\* String.prototype.lastIndexOf(pattern, from) over the set at of indexes at
\* which the pattern occurs: the largest one not after from, or -1.
LastIndexOf(at, from) ==
    LET upTo == {x \in at : x <= from}
    IN  IF upTo = {} THEN -1 ELSE CHOOSE x \in upTo : \A y \in upTo : y <= x

\* The number of characters of textToSpeak that speakCurrent hands to the
\* utterance for the chunk text t.
TextToSpeak(t, ios) ==
    IF t.len > maxChars(ios)
    THEN LET atDot == LastIndexOf(t.dots, maxChars(ios))
             breakPoint == IF atDot < maxChars(ios) \div 2
                           THEN LastIndexOf(t.spaces, maxChars(ios))
                           ELSE atDot
         IN  IF breakPoint > 0 THEN breakPoint + 1 ELSE t.len
    ELSE t.len

\* utterance.pitch in tenths: 1.1 for dialogue when smart voices is on;
\* otherwise 1.0, assigned for narration and the utterance's default when
\* smart voices is off.
Pitch(p, smart) == IF smart /\ p.isDialogue THEN 11 ELSE 10

\* The body of speakCurrent's delayed callback for the captured chunk of
\* index par, with q in the backend: builds the utterance, resolves its
\* voice (which may extend the mapping) and speaks it.
SubmitEffect(par, q) ==
    LET p == BookChunk(par)
        r == ResolveVoice(p, smartVoices, speakerVoices, narratorVoice,
                          dialogueVoice, voices)
    IN  /\ queue' = Append(q, [idx |-> par, voice |-> r.voice,
                                handlers |-> TRUE,
                                chars |-> TextToSpeak(p.text, isIOSSafari),
                                pitch |-> Pitch(p, smartVoices)])
        /\ speakerVoices' = r.map
        /\ firstVoice' = IF p.isDialogue /\ p.speaker # NoSpeaker /\ smartVoices
                         THEN Remember(firstVoice, p.speaker, r.voice)
                         ELSE firstVoice

\* The delayed submit of speakCurrent.  A captured undefined makes
\* paragraph.text throw.
SubmitTimer ==
    \E k \in 1..Len(timers) :
       /\ timers[k].kind = "submit"
       /\ CanFire(k)
       /\ timers' = Remove(timers, k)
       /\ IF timers[k].par < 0
          THEN /\ SetLast("submitThrows")
               /\ UNCHANGED << queue, speakerVoices, histVars >>
          ELSE /\ Len(queue) < MaxQueue
               /\ SubmitEffect(timers[k].par, queue)
               /\ SetLast("submit")
       /\ UNCHANGED << fixedVars, currentParagraphIndex, isPlaying,
                       iosSpeechInitialized, display, stale >>
       /\ UNCHANGED << voiceVars, loadVars >>

\* play() at index i and the delayed submit of its speakCurrent, with no
\* other step between them.
SpeakAny ==
    /\ ~isIOSSafari
    /\ \E i \in 0..(NumChunks - 1) :
          /\ currentParagraphIndex' = i
          /\ display' = i
          /\ SubmitEffect(i, << >>)
    /\ isPlaying' = TRUE
    /\ stale' = StaleAfterCancel(queue, stale)
    /\ SetLast("submit")
    /\ UNCHANGED << fixedVars, iosSpeechInitialized, timers >>
    /\ UNCHANGED << voiceVars, loadVars >>

(***************************************************************************)
(* Backend events.                                                         *)
(***************************************************************************)
\* utterance.onend: advance, and pace the next speakCurrent when playing.
OnEnd(tms) ==
    /\ currentParagraphIndex' = currentParagraphIndex + 1
    /\ timers' = IF isPlaying
                 THEN Append(tms, Timer("speak", -1, PACING_DELAY_MS))
                 ELSE tms

\* utterance.onerror: on iOS Safari cancel first; then as onend.
OnError(q, st) ==
    /\ queue' = IF isIOSSafari THEN << >> ELSE q
    /\ stale' = IF isIOSSafari THEN StaleAfterCancel(q, st) ELSE st
    /\ currentParagraphIndex' = currentParagraphIndex + 1
    /\ timers' = IF isPlaying
                 THEN Append(timers,
                             Timer("speak", -1,
                                   IF isIOSSafari THEN IOS_ERROR_DELAY_MS
                                   ELSE PACING_DELAY_MS))
                 ELSE timers

\* The utterance being spoken completes.
UtteranceEnd ==
    /\ Len(queue) > 0
    /\ Head(queue).handlers
    /\ isPlaying => Len(timers) < MaxTimers
    /\ queue' = Tail(queue)
    /\ OnEnd(timers)
    /\ SetLast(IF IsCurrent(1) THEN "end" ELSE "endSuperseded")
    /\ UNCHANGED << fixedVars, isPlaying, speakerVoices,
                    iosSpeechInitialized, display, stale >>
    /\ UNCHANGED << voiceVars, loadVars, histVars >>

\* The utterance being spoken fails.
UtteranceError ==
    /\ Len(queue) > 0
    /\ Head(queue).handlers
    /\ isPlaying => Len(timers) < MaxTimers
    /\ OnError(Tail(queue), stale)
    /\ SetLast(IF IsCurrent(1) THEN "error" ELSE "errorSuperseded")
    /\ UNCHANGED << fixedVars, isPlaying, speakerVoices,
                    iosSpeechInitialized, display >>
    /\ UNCHANGED << voiceVars, loadVars, histVars >>

\* The unlock utterance finishes: it has no handlers.
InitUtteranceDone ==
    /\ Len(queue) > 0
    /\ ~Head(queue).handlers
    /\ queue' = Tail(queue)
    /\ SetLast("initDone")
    /\ UNCHANGED << fixedVars, currentParagraphIndex, isPlaying,
                    speakerVoices, iosSpeechInitialized, display, timers, stale >>
    /\ UNCHANGED << voiceVars, loadVars, histVars >>

\* The terminal event of a cancelled utterance arrives as 'end'.
StaleEnd ==
    /\ stale > 0
    /\ isPlaying => Len(timers) < MaxTimers
    /\ stale' = stale - 1
    /\ OnEnd(timers)
    /\ SetLast("staleEnd")
    /\ UNCHANGED << fixedVars, isPlaying, speakerVoices,
                    iosSpeechInitialized, display, queue >>
    /\ UNCHANGED << voiceVars, loadVars, histVars >>

\* The terminal event of a cancelled utterance arrives as 'error'
\* (interrupted / canceled).
StaleError ==
    /\ stale > 0
    /\ isPlaying => Len(timers) < MaxTimers
    /\ OnError(queue, stale - 1)
    /\ SetLast("staleError")
    /\ UNCHANGED << fixedVars, isPlaying, speakerVoices,
                    iosSpeechInitialized, display >>
    /\ UNCHANGED << voiceVars, loadVars, histVars >>

(***************************************************************************)
(* Spec: the playback controller on either platform, with the settings as  *)
(* constructed.                                                            *)
(***************************************************************************)
Next ==
    \/ Play
    \/ Pause
    \/ TogglePlayPause
    \/ Rewind
    \/ Forward
    \/ SeekToPercent
    \/ ResetReader
    \/ LoadPDF
    \/ LoadFails
    \/ ExtractBegin
    \/ ExtractFails
    \/ ExtractDone
    \/ ResumeTimer
    \/ IosInitTimer
    \/ PacingTimer
    \/ SubmitTimer
    \/ UtteranceEnd
    \/ UtteranceError
    \/ InitUtteranceDone
    \/ StaleEnd
    \/ StaleError

Spec == Init /\ [][Next]_vars

(***************************************************************************)
(* DesktopSpec: the same controller where isIOSSafari is false and the     *)
(* user presses play, toggles, resets or picks a file only when no         *)
(* setTimeout callback is pending; pause, rewind, forward, seekToPercent   *)
(* and utterance events arrive at any time.                                *)
(***************************************************************************)
DesktopInit ==
    /\ isIOSSafari = FALSE
    /\ Constructed
    /\ ChunkerIdle
    /\ DetectorIdle
    /\ ExtractorIdle
    /\ PollingIdle

\* No setTimeout callback is pending.
Quiet == timers = << >>

DesktopNext ==
    \/ Quiet /\ Play
    \/ Pause
    \/ Quiet /\ TogglePlayPause
    \/ Rewind
    \/ Forward
    \/ SeekToPercent
    \/ Quiet /\ ResetReader
    \/ Quiet /\ LoadPDF
    \/ LoadFails
    \/ ExtractBegin
    \/ ExtractFails
    \/ ExtractDone
    \/ ResumeTimer
    \/ PacingTimer
    \/ SubmitTimer
    \/ UtteranceEnd
    \/ UtteranceError
    \/ StaleEnd
    \/ StaleError

DesktopSpec == DesktopInit /\ [][DesktopNext]_vars

(***************************************************************************)
(* MapSpec: DesktopSpec with a user who also switches smart voices on and  *)
(* off when no setTimeout callback is pending.                             *)
(***************************************************************************)
MapNext ==
    \/ DesktopNext
    \/ Quiet /\ SetSmartVoices

MapSpec == DesktopInit /\ [][MapNext]_vars

(***************************************************************************)
(* VoiceSpec: the voice assigner under every order of settings changes,    *)
(* loads, resets and resolutions.  Rewind, forward and seekToPercent can   *)
(* make any chunk current, so a resolution may be for any chunk of the     *)
(* loaded document.                                                        *)
(***************************************************************************)
VoiceNext ==
    \/ LoadPDF
    \/ ExtractBegin
    \/ ExtractDone
    \/ ResetReader
    \/ LoadVoices
    \/ SetNarratorVoice
    \/ SetDialogueVoice
    \/ SetSmartVoices
    \/ SpeakAny

\* The voices may arrive only with onvoiceschanged.
VoiceInit ==
    /\ isIOSSafari = FALSE
    /\ \E vs \in {<< >>, Catalog} : ConstructedWith(vs)
    /\ ChunkerIdle
    /\ DetectorIdle
    /\ ExtractorIdle
    /\ PollingIdle

VoiceSpec == VoiceInit /\ [][VoiceNext]_vars

(***************************************************************************)
(* splitIntoSentences(text).  The split on sentence ends gives the units   *)
(* (parts); a unit is known by its length, by whether it starts with a     *)
(* quotation mark and by whether it ends with sentence punctuation.  A     *)
(* text is the sequence of its tokens: k > 0 is unit k, 0 is one space.    *)
(***************************************************************************)
TARGET_MIN_SIZE == 600
TARGET_MAX_SIZE == 1200
HARD_MAX_SIZE == 1500

UnitLengths == {300, 600, 900, 1600}

\* A unit before the last one ends with the punctuation the split looked
\* behind and is not empty.
InnerUnits ==
    {[len |-> l, quote |-> q, term |-> TRUE] : l \in UnitLengths, q \in BOOLEAN}

\* The last unit is the rest of the text: any ending, and empty when the
\* text ends with punctuation followed by white space.
LastUnits ==
    {[len |-> l, quote |-> q, term |-> t] :
        l \in UnitLengths, q \in BOOLEAN, t \in BOOLEAN}
    \cup {[len |-> 0, quote |-> FALSE, term |-> FALSE]}

SplitResults ==
    UNION {{s \in [1..n -> InnerUnits \cup LastUnits] :
               /\ \A i \in 1..(n - 1) : s[i] \in InnerUnits
               /\ n = 1 => s[n].len > 0} : n \in 1..MaxParts}

TokLen(t) == IF t = 0 THEN 1 ELSE parts[t].len

RECURSIVE TextLen(_)
TextLen(text) ==
    IF text = << >> THEN 0 ELSE TokLen(Head(text)) + TextLen(Tail(text))

PartText(k) == IF parts[k].len = 0 THEN << >> ELSE << k >>

\* current += (current ? ' ' : '') + part
Appended(cur, k) ==
    cur \o (IF cur # << >> THEN << 0 >> ELSE << >>) \o PartText(k)

\* /[.!?]["']?\s*$/.test(current)
EndsTerminal(cur) ==
    LET units == SelectSeq(cur, LAMBDA t : t # 0)
    IN  units # << >> /\ parts[units[Len(units)]].term

\* /^\s*["']/.test(part)
StartsQuote(k) == parts[k].len > 0 /\ parts[k].quote

FlushLosing(cs, cur, k) ==
    [chunks |-> cs, current |-> PartText(k)]

\* if (current) chunks.push(current); current = part;
Flush(cs, cur, k) ==
    [chunks |-> IF cur # << >> THEN Append(cs, cur) ELSE cs,
     current |-> PartText(k)]

Keep(cs, cur, k) == [chunks |-> cs, current |-> Appended(cur, k)]

\* The body of parts.forEach for unit k.
ForEachBody(cs, cur, k) ==
    LET potentialLength == TextLen(cur) + parts[k].len + 1
    IN  IF TextLen(cur) < TARGET_MIN_SIZE THEN Keep(cs, cur, k)
        ELSE IF potentialLength < TARGET_MAX_SIZE THEN Keep(cs, cur, k)
        ELSE IF potentialLength < HARD_MAX_SIZE
             THEN IF EndsTerminal(cur) /\ ~StartsQuote(k)
                  THEN Flush(cs, cur, k)
                  ELSE Keep(cs, cur, k)
             ELSE Flush(cs, cur, k)

playbackVars == << isIOSSafari, paragraphs, currentParagraphIndex, isPlaying,
                   voices, narratorVoice, dialogueVoice, smartVoices,
                   speakerVoices, iosSpeechInitialized, readerShown, loadPc,
                   display, timers, queue, stale, firstVoice, lastOp,
                   lastFrom, lastArg >>

ChunkInit ==
    /\ isIOSSafari = FALSE
    /\ Constructed
    /\ parts \in SplitResults
    /\ partIdx = 0
    /\ current = << >>
    /\ chunks = << >>
    /\ chunkDone = FALSE
    /\ DetectorIdle
    /\ ExtractorIdle
    /\ PollingIdle

ChunkStep ==
    /\ ~chunkDone
    /\ partIdx < Len(parts)
    /\ LET r == ForEachBody(chunks, current, partIdx + 1)
       IN  /\ chunks' = r.chunks
           /\ current' = r.current
    /\ partIdx' = partIdx + 1
    /\ UNCHANGED << parts, chunkDone, playbackVars >>
    /\ UNCHANGED << detectVars, extractVars, startupVars >>

\* if (current) chunks.push(current); return chunks;
ChunkReturn ==
    /\ ~chunkDone
    /\ partIdx = Len(parts)
    /\ chunks' = IF current # << >> THEN Append(chunks, current) ELSE chunks
    /\ chunkDone' = TRUE
    /\ UNCHANGED << parts, partIdx, current, playbackVars >>
    /\ UNCHANGED << detectVars, extractVars, startupVars >>

ChunkNext ==
    \/ ChunkStep
    \/ ChunkReturn

ChunkSpec == ChunkInit /\ [][ChunkNext]_vars

\* The texts of s joined with single spaces.
RECURSIVE JoinSp(_)
JoinSp(s) ==
    IF s = << >> THEN << >>
    ELSE IF Len(s) = 1 THEN s[1]
    ELSE s[1] \o << 0 >> \o JoinSp(Tail(s))

RECURSIVE TrimEnd(_)
TrimEnd(text) ==
    IF text # << >> /\ text[Len(text)] = 0
    THEN TrimEnd(SubSeq(text, 1, Len(text) - 1))
    ELSE text

UnitsJoined == JoinSp([k \in 1..Len(parts) |-> PartText(k)])

(***************************************************************************)
(* LiveSpec: the reader just after play() on a loaded document, at any     *)
(* position play() can be called at, with the user gone.  Below zero       *)
(* (forward() on an empty sequence, then a load) play() has thrown in      *)
(* updateDisplay with isPlaying set; otherwise the delayed submit is       *)
(* pending.  Events of utterances cancelled earlier may still arrive.  The *)
(* event loop runs every due timer, and every utterance with the backend   *)
(* gets its end or error event.                                            *)
(***************************************************************************)
LiveInit ==
    /\ isIOSSafari \in BOOLEAN
    /\ \E n \in DocLengths \ {0} : paragraphs = Book(n)
    /\ currentParagraphIndex \in -1..(NumChunks - 1)
    /\ isPlaying = TRUE
    /\ voices = Catalog
    /\ narratorVoice = DefaultNarrator(Catalog)
    /\ dialogueVoice = DefaultDialogue(Catalog)
    /\ smartVoices = TRUE
    /\ speakerVoices = EmptyMap
    /\ iosSpeechInitialized = isIOSSafari
    /\ readerShown = TRUE
    /\ loadPc = "none"
    /\ display = IF currentParagraphIndex < 0 THEN -1 ELSE currentParagraphIndex
    /\ timers = IF currentParagraphIndex < 0 THEN << >>
                ELSE << Timer("submit", currentParagraphIndex, 0) >>
    /\ queue = << >>
    /\ stale \in 0..MaxStale
    /\ firstVoice = EmptyMap
    /\ lastOp = "play"
    /\ lastFrom = 0
    /\ lastArg = 0
    /\ ChunkerIdle
    /\ DetectorIdle
    /\ ExtractorIdle
    /\ PollingIdle

LiveNext ==
    \/ PacingTimer
    \/ SubmitTimer
    \/ UtteranceEnd
    \/ UtteranceError
    \/ StaleEnd
    \/ StaleError

LiveSpec ==
    /\ LiveInit
    /\ [][LiveNext]_vars
    /\ WF_vars(PacingTimer)
    /\ WF_vars(SubmitTimer)
    /\ WF_vars(UtteranceEnd \/ UtteranceError)

(***************************************************************************)
(* SkipSpec: LiveSpec with a user who rewinds, forwards or seeks, each     *)
(* time right after a chunk has been submitted, and does nothing else.     *)
(***************************************************************************)
AfterSubmit == lastOp = "submit"

SkipNext ==
    \/ AfterSubmit /\ Rewind
    \/ AfterSubmit /\ Forward
    \/ AfterSubmit /\ SeekToPercent
    \/ ResumeTimer
    \/ PacingTimer
    \/ SubmitTimer
    \/ UtteranceEnd
    \/ UtteranceError
    \/ StaleEnd
    \/ StaleError

SkipSpec ==
    /\ LiveInit
    /\ [][SkipNext]_vars
    /\ WF_vars(ResumeTimer)
    /\ WF_vars(PacingTimer)
    /\ WF_vars(SubmitTimer)
    /\ WF_vars(UtteranceEnd \/ UtteranceError)

(***************************************************************************)
(* detectSpeaker(text).  A text is the sequence of its whitespace-         *)
(* separated tokens: a name, an attribution verb, or a quoted passage,     *)
(* which neither begins nor ends with a word character.                    *)
(***************************************************************************)
Verbs == {"said", "replied", "asked", "exclaimed", "whispered", "shouted",
          "muttered", "called", "answered"}

Quoted == "quoted"

Tokens == Speakers \cup Verbs \cup {Quoted}

Sentences == UNION { [1..n -> Tokens] : n \in 1..MaxTokens }

\* speakerPatterns, in the order of the array: verbFirst is /verb\s+(\w+)/i,
\* otherwise /(\w+)\s+verb/i.
speakerPatterns ==
    << [verb |-> "said",      verbFirst |-> TRUE],
       [verb |-> "said",      verbFirst |-> FALSE],
       [verb |-> "replied",   verbFirst |-> FALSE],
       [verb |-> "replied",   verbFirst |-> TRUE],
       [verb |-> "asked",     verbFirst |-> FALSE],
       [verb |-> "asked",     verbFirst |-> TRUE],
       [verb |-> "exclaimed", verbFirst |-> FALSE],
       [verb |-> "whispered", verbFirst |-> FALSE],
       [verb |-> "shouted",   verbFirst |-> FALSE],
       [verb |-> "muttered",  verbFirst |-> FALSE],
       [verb |-> "called",    verbFirst |-> FALSE],
       [verb |-> "answered",  verbFirst |-> FALSE] >>

\* The pattern matches text with its first word at token i.
MatchesAt(pattern, text, i) ==
    /\ i + 1 <= Len(text)
    /\ text[i] # Quoted
    /\ text[i + 1] # Quoted
    /\ IF pattern.verbFirst THEN text[i] = pattern.verb
       ELSE text[i + 1] = pattern.verb

\* text.match(pattern): match[1] of the leftmost match, or null.
Match(pattern, text) ==
    LET at == { i \in 1..Len(text) : MatchesAt(pattern, text, i) }
    IN  IF at = {} THEN NoSpeaker
        ELSE LET i == CHOOSE k \in at : \A j \in at : k <= j
             IN  IF pattern.verbFirst THEN text[i + 1] ELSE text[i]

\* The for loop over speakerPatterns, from pattern k on.
RECURSIVE DetectFrom(_, _)
DetectFrom(text, k) ==
    IF k > Len(speakerPatterns) THEN NoSpeaker
    ELSE IF Match(speakerPatterns[k], text) # NoSpeaker
    THEN Match(speakerPatterns[k], text)
    ELSE DetectFrom(text, k + 1)

DetectSpeaker(text) == DetectFrom(text, 1)

Pending == "pending"

DetectInit ==
    /\ isIOSSafari = FALSE
    /\ Constructed
    /\ ChunkerIdle
    /\ ExtractorIdle
    /\ PollingIdle
    /\ sentence \in Sentences
    /\ detected = Pending

DetectReturn ==
    /\ detected = Pending
    /\ detected' = DetectSpeaker(sentence)
    /\ UNCHANGED << sentence, playbackVars, chunkVars, extractVars,
                    startupVars >>

DetectSpec == DetectInit /\ [][DetectReturn]_vars

(***************************************************************************)
(* extractText(), its second loop.  A page text is the sequence of its     *)
(* paragraphs (the pieces between blank lines that are not blank), a       *)
(* paragraph the sequence of the chunks splitIntoSentences returns for it, *)
(* each TRUE when it has a character that is not white space.  The text of *)
(* a chunk is known by where it comes from: page, paragraph, place.        *)
(***************************************************************************)
PageTexts ==
    { << >>,
      << << TRUE >> >>,
      << << TRUE, TRUE >> >>,
      << << TRUE >>, << TRUE, FALSE >> >>,
      << << FALSE, TRUE >>, << TRUE >> >> }

\* this.textContent after the first loop over a document of n pages.
PageContents(n) ==
    { tc \in [1..n -> [page : 1..n, text : PageTexts]] :
         \A i \in 1..n : tc[i].page = i }

RECURSIVE SentencesFrom(_, _, _, _, _)
SentencesFrom(from, page, j, para, k) ==
    IF k > Len(para) THEN << >>
    ELSE (IF para[k]
          THEN << [page |-> page, text |-> << from, j, k >>] >>
          ELSE << >>) \o SentencesFrom(from, page, j, para, k + 1)

RECURSIVE ParagraphsFrom(_, _, _, _)
ParagraphsFrom(from, page, paras, j) ==
    IF j > Len(paras) THEN << >>
    ELSE SentencesFrom(from, page, j, paras[j], 1)
            \o ParagraphsFrom(from, page, paras, j + 1)

\* A loop body that numbers every chunk as of the first page.
PageChunksOfFirstPage(from, pageContent) ==
    ParagraphsFrom(from, 1, pageContent.text, 1)

\* The chunk records the forEach body pushes for the page at place from of
\* textContent.
PageChunks(from, pageContent) ==
    ParagraphsFrom(from, pageContent.page, pageContent.text, 1)

\* extractText has read the pages and emptied this.paragraphs.
ExtractInit ==
    /\ isIOSSafari = FALSE
    /\ paragraphs = << >>
    /\ currentParagraphIndex = 0
    /\ isPlaying = FALSE
    /\ voices = Catalog
    /\ narratorVoice = DefaultNarrator(Catalog)
    /\ dialogueVoice = DefaultDialogue(Catalog)
    /\ smartVoices = TRUE
    /\ speakerVoices = EmptyMap
    /\ iosSpeechInitialized = FALSE
    /\ readerShown = FALSE
    /\ loadPc = "extracting"
    /\ display = -1
    /\ timers = << >>
    /\ queue = << >>
    /\ stale = 0
    /\ firstVoice = EmptyMap
    /\ lastOp = "extractBegin"
    /\ lastFrom = 0
    /\ lastArg = 0
    /\ ChunkerIdle
    /\ DetectorIdle
    /\ PollingIdle
    /\ \E n \in 1..MaxPages : textContent \in PageContents(n)
    /\ pageIdx = 0

\* this.textContent.forEach: the body for the next page.
ExtractPage ==
    /\ loadPc = "extracting"
    /\ pageIdx < Len(textContent)
    /\ paragraphs' = paragraphs
                        \o PageChunks(pageIdx + 1, textContent[pageIdx + 1])
    /\ pageIdx' = pageIdx + 1
    /\ SetLast("extractPage")
    /\ UNCHANGED << isIOSSafari, currentParagraphIndex, isPlaying, voiceVars,
                    speakerVoices, iosSpeechInitialized, readerShown, loadPc,
                    display, timers, queue, stale, firstVoice, textContent >>
    /\ UNCHANGED << chunkVars, detectVars, startupVars >>

\* extractText returns; loadPDF shows the reader and calls updateDisplay.
ExtractReturn ==
    /\ loadPc = "extracting"
    /\ pageIdx = Len(textContent)
    /\ loadPc' = "none"
    /\ readerShown' = TRUE
    /\ display' = IF NumChunks = 0 THEN display ELSE currentParagraphIndex
    /\ SetLast("loaded")
    /\ UNCHANGED << isIOSSafari, paragraphs, currentParagraphIndex, isPlaying,
                    voiceVars, speakerVoices, iosSpeechInitialized, timers,
                    queue, stale, firstVoice >>
    /\ UNCHANGED << chunkVars, detectVars, extractVars, startupVars >>

ExtractNext ==
    \/ ExtractPage
    \/ ExtractReturn

ExtractSpec == ExtractInit /\ [][ExtractNext]_vars

(***************************************************************************)
(* initVoices(): when getVoices() is empty at construction, an interval    *)
(* polls it every 250 ms.  StartupSpec is the reader from construction,    *)
(* with the polling, onvoiceschanged and the two voice selects.            *)
(***************************************************************************)
maxRetries == 20

\* A polling that gives up one attempt late.
GivesUpLate(count) == count > maxRetries

GivesUp(count) == count >= maxRetries

StartupInit ==
    /\ isIOSSafari \in BOOLEAN
    /\ \E vs \in {<< >>, Catalog} :
          /\ ConstructedWith(vs)
          /\ retryInterval = (Len(vs) = 0)
    /\ retryCount = 0
    /\ warned = FALSE
    /\ ChunkerIdle
    /\ DetectorIdle
    /\ ExtractorIdle

\* The interval's callback, getVoices() returning vs.
RetryTick ==
    /\ retryInterval
    /\ retryCount' = retryCount + 1
    /\ \E vs \in {<< >>, Catalog} :
          /\ voices' = vs
          /\ IF Len(vs) > 0
             THEN /\ IF Len(EnglishVoices(vs)) > 0
                     THEN /\ narratorVoice' = DefaultNarrator(vs)
                          /\ dialogueVoice' = DefaultDialogue(vs)
                     ELSE UNCHANGED << narratorVoice, dialogueVoice >>
                  /\ retryInterval' = FALSE
                  /\ UNCHANGED warned
             ELSE /\ UNCHANGED << narratorVoice, dialogueVoice >>
                  /\ retryInterval' = ~GivesUp(retryCount')
                  /\ warned' = GivesUp(retryCount')
    /\ SetLast("retry")
    /\ UNCHANGED << isIOSSafari, chunkVars, detectVars, extractVars,
                    currentParagraphIndex, isPlaying, speakerVoices,
                    iosSpeechInitialized, display, timers, queue, stale,
                    smartVoices >>
    /\ UNCHANGED << loadVars, histVars >>

StartupNext ==
    \/ RetryTick
    \/ LoadVoices
    \/ SetNarratorVoice
    \/ SetDialogueVoice

StartupSpec == StartupInit /\ [][StartupNext]_vars

(***************************************************************************)
(* DefaultsSpec: populateVoiceSelects on every catalog of up to MaxVoices  *)
(* voices: each voice English or not, its name with a male hint, a female  *)
(* hint, both (as in "female") or none.                                    *)
(***************************************************************************)
VoiceName(i) == CASE i = 1 -> "v1" [] i = 2 -> "v2" [] i = 3 -> "v3"
                  [] OTHER -> "v4"

Catalogs ==
    UNION { { vs \in [1..n -> [name : { VoiceName(i) : i \in 1..n },
                               en : BOOLEAN, male : BOOLEAN,
                               female : BOOLEAN]] :
                 \A i \in 1..n : vs[i].name = VoiceName(i) } :
            n \in 2..MaxVoices }

DefaultsInit ==
    /\ isIOSSafari = FALSE
    /\ ConstructedWith(<< >>)
    /\ retryCount = 0
    /\ retryInterval = TRUE
    /\ warned = FALSE
    /\ ChunkerIdle
    /\ DetectorIdle
    /\ ExtractorIdle

\* onvoiceschanged, getVoices() returning any catalog.
VoicesChanged ==
    \E vs \in Catalogs :
       /\ voices' = vs
       /\ IF Len(EnglishVoices(vs)) > 0
          THEN /\ narratorVoice' = DefaultNarrator(vs)
               /\ dialogueVoice' = DefaultDialogue(vs)
          ELSE UNCHANGED << narratorVoice, dialogueVoice >>
       /\ SetLast("voices")
       /\ UNCHANGED << fixedVars, currentParagraphIndex, isPlaying,
                       speakerVoices, iosSpeechInitialized, display, timers,
                       queue, stale, smartVoices >>
       /\ UNCHANGED << loadVars, histVars >>

DefaultsSpec == DefaultsInit /\ [][VoicesChanged]_vars

(***************************************************************************)
(* Properties.                                                             *)
(***************************************************************************)
LastUtterance == queue[Len(queue)]

\* C1: the position changes only by rewind, forward, seek, reset, or a
\* completion or error event of the request that is current; no other
\* step, a late event of a cancelled request included, moves it.
C1_OnlyCurrentRequestMovesPosition ==
    [][currentParagraphIndex' # currentParagraphIndex =>
          lastOp' \in {"rewind", "forward", "seek", "reset", "end", "error"}]_vars

\* C2: the speech backend never holds more than one outstanding request.
C2_AtMostOneRequest == Len(queue) <= 1

\* C3: with a non-empty document loaded the position is within 0..n-1.
C3_PositionInRange ==
    NumChunks > 0 => currentParagraphIndex \in 0..(NumChunks - 1)

C5_ErrorAdvancesByOne ==
    [][(lastOp' = "error" /\ isPlaying /\ queue # << >>
          /\ LastUtterance.idx < NumChunks - 1)
         => (currentParagraphIndex' = LastUtterance.idx + 1 /\ isPlaying')]_vars

\* C6: when a load completes the position is 0 and the speaker mapping is
\* empty.
C6_LoadStartsFresh ==
    lastOp = "loaded" => (currentParagraphIndex = 0 /\ speakerVoices = EmptyMap)

\* C7: every chunk splitIntoSentences produces is non-empty and at most
\* 1500 characters long.
C7_ChunksWithinHardMax ==
    \A i \in 1..Len(chunks) :
        TextLen(chunks[i]) >= 1 /\ TextLen(chunks[i]) <= 1500

\* C8 as stated: the returned chunks joined with single spaces are exactly
\* the units joined with single spaces.
C8_ChunksJoinToUnits ==
    (chunkDone /\ parts # << >>) => JoinSp(chunks) = UnitsJoined

\* C8 amended: the returned chunks joined with single spaces are the units
\* joined with single spaces up to white space at the end; no non-empty
\* unit is dropped, repeated, reordered or cut.
C8_ChunksJoinToUnitsTrimmed ==
    (chunkDone /\ parts # << >>) =>
        TrimEnd(JoinSp(chunks)) = TrimEnd(UnitsJoined)

\* A paragraph ending in white space whose empty last unit was dropped by a
\* flush.
C8_Witness ==
    /\ chunkDone
    /\ Len(parts) = 3
    /\ parts[3].len = 0
    /\ Len(chunks) >= 1
    /\ JoinSp(chunks) # UnitsJoined
    /\ TrimEnd(JoinSp(chunks)) = TrimEnd(UnitsJoined)

\* C9: rewind leaves the position at max(0, p - 5), p the position before.
C9_RewindTarget ==
    lastOp = "rewind" => currentParagraphIndex = Max(0, lastFrom - 5)

\* Rewind while Playing from 7: the position is 2 and the resume is pending.
C9_Witness ==
    /\ lastOp = "rewind"
    /\ lastFrom = 7
    /\ currentParagraphIndex = 2
    /\ timers # << >>

\* C10: forward leaves the position at min(n - 1, p + 5), p the position
\* before.
C10_ForwardTarget ==
    lastOp = "forward" =>
        currentParagraphIndex = Min(NumChunks - 1, lastFrom + 5)

\* Forward from the last chunk of the longest document.
C10_Witness ==
    /\ lastOp = "forward"
    /\ NumChunks = MaxChunks
    /\ lastFrom = NumChunks - 1
    /\ currentParagraphIndex = lastFrom

UserPlayback == {"play", "pause", "toggle", "rewind", "forward", "seek"}

\* C12: with a loaded document of zero chunks, every playback operation
\* (play, pause, toggle, rewind, forward, seekToPercent) is a no-op: the
\* position stays 0, the state stays not Playing and nothing is submitted or
\* scheduled.
C12_EmptyDocumentNoOps ==
    [][(/\ readerShown
        /\ NumChunks = 0
        /\ currentParagraphIndex = 0
        /\ ~isPlaying
        /\ lastOp' \in UserPlayback)
       => (/\ currentParagraphIndex' = 0
           /\ ~isPlaying'
           /\ queue' = << >>
           /\ timers' = timers)]_vars

C14_PausedHasNoRequest ==
    ~isPlaying => \A i \in 1..Len(queue) : ~queue[i].handlers

\* C15: after the user's pause(), a resume timer of an earlier rewind,
\* forward or seekToPercent, or a pacing timer, that fires next leaves the
\* state not Playing.
C15_PauseHolds ==
    [][(lastOp = "pause" /\ lastOp' \in {"resumeTimer", "pacingTimer"})
          => ~isPlaying']_vars

\* C16: from Playing at any position, with no further user operation and
\* every submitted request getting its end or error event, playback
\* eventually is not Playing with the chunk sequence exhausted.
C16_PlaybackEnds ==
    <>(~isPlaying /\ currentParagraphIndex >= NumChunks)

\* C17: during playback with no user operation, the end event of the
\* current request, for chunk i, leaves the position at i + 1, the chunk
\* submitted next.
C17_CompletionAdvancesToNext ==
    [][(lastOp' = "end" /\ isPlaying /\ queue # << >>)
          => currentParagraphIndex' = LastUtterance.idx + 1]_vars

Skips == {"rewind", "forward", "seek"}

\* The resume of a skip is pending.
ResumePending == \E k \in 1..Len(timers) : timers[k].kind = "play"

\* C18: after rewind, forward or seekToPercent invoked while Playing has
\* moved the position to t, the state is eventually Playing with a request
\* for chunk t with the backend.
C18_SkipResumesAtTarget ==
    \A t \in 0..(MaxChunks - 1) :
        (lastOp \in Skips /\ ResumePending /\ currentParagraphIndex = t)
            ~> (isPlaying /\ \E i \in 1..Len(queue) : queue[i].idx = t)

\* C19: every request carries the whole text of its chunk, whatever the
\* chunk's length.
C19_WholeChunkSubmitted ==
    \A i \in 1..Len(queue) :
        queue[i].handlers => queue[i].chars = BookChunk(queue[i].idx).text.len

\* C20: the voice of a submitted request is narratorVoice when smart voices
\* is off or the chunk is narration, dialogueVoice when smart voices is on
\* and the chunk is dialogue without a speaker, and the voice the mapping
\* held for the speaker when smart voices is on and the chunk is dialogue
\* whose speaker was already mapped.
C20_VoiceResolution ==
    [][(lastOp' = "submit" /\ queue' # << >>) =>
          LET u == queue'[Len(queue')]
              p == BookChunk(u.idx)
          IN  /\ (~smartVoices \/ ~p.isDialogue) => u.voice = narratorVoice
              /\ (smartVoices /\ p.isDialogue /\ p.speaker = NoSpeaker)
                    => u.voice = dialogueVoice
              /\ (smartVoices /\ p.isDialogue
                    /\ p.speaker \in DOMAIN speakerVoices)
                    => u.voice = speakerVoices[p.speaker]]_vars

\* With speakers already mapped, a dialogue chunk without a speaker has been
\* submitted in the dialogue voice, which is not the narrator's.
C20_Witness ==
    /\ lastOp = "submit"
    /\ queue # << >>
    /\ smartVoices
    /\ BookChunk(LastUtterance.idx).isDialogue
    /\ BookChunk(LastUtterance.idx).speaker = NoSpeaker
    /\ DOMAIN speakerVoices # {}
    /\ LastUtterance.voice = dialogueVoice
    /\ dialogueVoice # narratorVoice
    /\ dialogueVoice # NoVoice

\* C21: a submit for a dialogue chunk whose speaker is not yet mapped, with
\* smart voices on, maps the speaker to the first English voice that is
\* neither mapped to another speaker nor the narrator's, which is then
\* different from every voice mapped so far and from the narrator's; when
\* there is no such voice it maps the speaker to the English voice at index
\* (size of the mapping mod number of English voices).
C21_NewSpeakerVoice ==
    [][(lastOp' = "submit" /\ queue' # << >>) =>
          LET u    == queue'[Len(queue')]
              p    == BookChunk(u.idx)
              en   == EnglishVoices(voices)
              used == { speakerVoices[s] : s \in DOMAIN speakerVoices }
              free == { i \in 1..Len(en) :
                          en[i].name \notin used /\ en[i].name # narratorVoice }
          IN  (smartVoices /\ p.isDialogue /\ p.speaker # NoSpeaker
                 /\ p.speaker \notin DOMAIN speakerVoices /\ Len(en) > 0)
              => /\ p.speaker \in DOMAIN speakerVoices'
                 /\ speakerVoices'[p.speaker] = u.voice
                 /\ IF free # {}
                    THEN /\ \E i \in free :
                               /\ u.voice = en[i].name
                               /\ \A j \in free : i <= j
                         /\ u.voice \notin used
                         /\ u.voice # narratorVoice
                    ELSE u.voice =
                           en[(Cardinality(DOMAIN speakerVoices) % Len(en))
                                + 1].name]_vars

\* Both speakers have been mapped, to two voices that differ from each other
\* and from the narrator's.
C21_Witness ==
    /\ lastOp = "submit"
    /\ queue # << >>
    /\ smartVoices
    /\ DOMAIN speakerVoices = Speakers
    /\ BookChunk(LastUtterance.idx).speaker = "Ben"
    /\ LastUtterance.voice = speakerVoices["Ben"]
    /\ speakerVoices["Ana"] # speakerVoices["Ben"]
    /\ speakerVoices["Ana"] # narratorVoice
    /\ speakerVoices["Ben"] # narratorVoice
    /\ speakerVoices["Ben"] # NoVoice

\* The mapping sv extended by exactly one entry, for speaker s.
AddsOne(sv, s, after) ==
    /\ s \notin DOMAIN sv
    /\ DOMAIN after = DOMAIN sv \cup {s}
    /\ \A t \in DOMAIN sv : after[t] = sv[t]

Callbacks ==
    {"resumeTimer", "pacingTimer", "iosInitTimer", "submit", "submitThrows",
     "end", "endSuperseded", "error", "errorSuperseded",
     "staleEnd", "staleError", "initDone"}

\* The reader as resetReader leaves it, no load having begun since.
AfterReset ==
    /\ ~readerShown
    /\ loadPc = "none"
    /\ paragraphs = << >>
    /\ currentParagraphIndex = 0
    /\ speakerVoices = EmptyMap
    /\ ~isPlaying

\* C23: while the reader is as reset left it, no timer callback and no
\* utterance event changes the chunk sequence, the position, the mapping or
\* the play state.
C23_ResetIsQuiet ==
    [][(AfterReset /\ lastOp' \in Callbacks)
          => (/\ paragraphs' = << >>
              /\ currentParagraphIndex' = 0
              /\ speakerVoices' = EmptyMap
              /\ ~isPlaying')]_vars

\* C24: after a step that moves the position of a loaded document (the
\* end or error event of the current request, rewind, forward,
\* seekToPercent) the chunk rendered by updateDisplay is the chunk at the
\* new position.
C24_DisplayFollowsPosition ==
    [][(lastOp' \in {"end", "error"} \cup Skips /\ NumChunks > 0)
          => display' = currentParagraphIndex']_vars

\* C25: for every attribution verb, a text whose only attribution is
\* 'verb X' after a quoted passage and a text whose only attribution is
\* 'X verb' after a quoted passage both give speaker X.
C25_BothOrdersCovered ==
    detected # Pending =>
        \A v \in Verbs, x \in Speakers :
            (sentence = << Quoted, v, x >> \/ sentence = << Quoted, x, v >>)
                => detected = x

\* a comes before b in reading order: page, then paragraph, then place.
Precedes(a, b) ==
    \/ a[1] < b[1]
    \/ a[1] = b[1] /\ a[2] < b[2]
    \/ a[1] = b[1] /\ a[2] = b[2] /\ a[3] < b[3]

\* The texts of the document that are not blank.
Readable ==
    { t \in (1..Len(textContent)) \X (1..2) \X (1..2) :
         /\ t[2] <= Len(textContent[t[1]].text)
         /\ t[3] <= Len(textContent[t[1]].text[t[2]])
         /\ textContent[t[1]].text[t[2]][t[3]] }

C27_PitchByKind ==
    \A i \in 1..Len(queue) :
        queue[i].handlers =>
            queue[i].pitch = IF BookChunk(queue[i].idx).isDialogue
                             THEN 11 ELSE 10

\* C28: the polling makes at most maxRetries attempts; an attempt that
\* obtains a catalog that is not empty ends the polling, and so does the
\* attempt numbered maxRetries, which logs the give-up warning; once the
\* polling has ended there is no further attempt, and the warning is logged
\* by nothing else.
C28_PollingBounded ==
    [][/\ retryCount' <= maxRetries
       /\ ~retryInterval => (retryCount' = retryCount /\ ~retryInterval')
       /\ (lastOp' = "retry" /\ Len(voices') > 0)
             => (~retryInterval' /\ warned' = warned)
       /\ (lastOp' = "retry" /\ Len(voices') = 0)
             => /\ retryInterval' = (retryCount' < maxRetries)
                /\ warned' = (retryCount' = maxRetries)
       /\ warned' # warned => lastOp' = "retry"
       /\ warned' => (retryCount' = maxRetries /\ ~retryInterval')]_vars

\* The polling has given up after maxRetries empty catalogs.
C28_Witness ==
    /\ lastOp = "retry"
    /\ retryCount = maxRetries
    /\ ~retryInterval
    /\ warned
    /\ voices = << >>

\* C29: after the defaults are chosen on a catalog with two or more English
\* voices, the dialogue voice is not the narrator voice.
C29_DefaultsDiffer ==
    (lastOp = "voices" /\ Len(EnglishVoices(voices)) >= 2)
        => dialogueVoice # narratorVoice

\* C30: forward() leaves the position where it was or further on, and
\* rewind() leaves it where it was or further back.
C30_SkipsKeepDirection ==
    /\ lastOp = "forward" => currentParagraphIndex >= lastFrom
    /\ lastOp = "rewind" => currentParagraphIndex <= lastFrom

=============================================================================
